---- MODULE Spec2Model ----
(***************************************************************************)
(* pypet: snippet templating (placeholders and parameters), the TOML-file  *)
(* Storage and its load/save cycle.                                        *)
(*                                                                         *)
(* A Python str is a sequence of one-character strings, so that strip(),   *)
(* placeholder scanning and substitution are computed, not assumed.        *)
(***************************************************************************)
EXTENDS Integers, Sequences, FiniteSets, TLC

\* Python's None where a str is expected: a value that no modelled str equals.
None == <<"<None>">>

Range(s) == {s[i] : i \in 1..Len(s)}

Min(S) == CHOOSE x \in S : \A y \in S : x <= y

RECURSIVE Concat(_)
\* "".join(parts)
Concat(parts) ==
    IF parts = <<>> THEN <<>> ELSE Head(parts) \o Concat(Tail(parts))

RECURSIVE Dedupe(_)
\* list(dict.fromkeys(seq)): drop repeats, keep first occurrences in order
Dedupe(seq) ==
    IF seq = <<>> THEN <<>>
    ELSE LET front == Dedupe(SubSeq(seq, 1, Len(seq) - 1))
             last == seq[Len(seq)]
         IN  IF last \in Range(front) THEN front ELSE Append(front, last)

(***************************************************************************)
(* Snippet templating engine (spec section 4.1).  Snippet.parameters,      *)
(* get_all_parameters and apply_parameters are called from cli.py and      *)
(* cli/execution_commands.py; their bodies are not part of src/.           *)
(***************************************************************************)

\* identifier characters of a placeholder name
WordChars == {"a", "b", "c", "d", "v", "w"}

\* Parameter(name, default=None, description=None)
Parameter(name, default) ==
    [name |-> name, default |-> default, description |-> None]

RECURSIVE WordRunEnd(_, _)
\* first index >= i of s that holds no identifier character (Len(s)+1 if none)
WordRunEnd(s, i) ==
    IF i > Len(s) \/ s[i] \notin WordChars THEN i ELSE WordRunEnd(s, i + 1)

\* index of the "}" closing a placeholder {identifier} that opens at i, else 0
PlaceholderEnd(s, i) ==
    IF s[i] # "{" THEN 0
    ELSE LET j == WordRunEnd(s, i + 1)
         IN  IF j > i + 1 /\ j <= Len(s) /\ s[j] = "}" THEN j ELSE 0

RECURSIVE PlaceholderNames(_, _)
\* the names of the {name} tokens of s from index i on, in order, with repeats
PlaceholderNames(s, i) ==
    IF i > Len(s) THEN <<>>
    ELSE LET j == PlaceholderEnd(s, i)
         IN  IF j = 0 THEN PlaceholderNames(s, i + 1)
             ELSE <<SubSeq(s, i + 1, j - 1)>> \o PlaceholderNames(s, j + 1)

DeclaredNames(snippet) ==
    {snippet.parameters[i].name : i \in 1..Len(snippet.parameters)}

\* undeclared placeholders in first-occurrence order, each a bare Parameter
UndeclaredPlaceholders(snippet) ==
    LET found == Dedupe(PlaceholderNames(snippet.command, 1))
        keep == SelectSeq(found, LAMBDA n : n \notin DeclaredNames(snippet))
    IN  [i \in 1..Len(keep) |-> Parameter(keep[i], None)]

\* faulty variant: the placeholders of the command before the declared parameters
GetAllParametersPlaceholdersFirst(snippet) ==
    UndeclaredPlaceholders(snippet) \o snippet.parameters

\* Snippet.get_all_parameters(): declared first, then placeholder-derived
GetAllParameters(snippet) ==
    snippet.parameters \o UndeclaredPlaceholders(snippet)

\* faulty variant: a supplied value is used even when it is empty
ResolveParameterKeepsEmpty(param, values) ==
    IF param.name \in DOMAIN values THEN values[param.name] ELSE param.default

\* the value of one parameter: supplied and non-empty, else default, else None
ResolveParameter(param, values) ==
    IF param.name \in DOMAIN values /\ values[param.name] # <<>>
    THEN values[param.name]
    ELSE param.default

\* name -> resolved value, over all parameters
ResolvedValues(snippet, values) ==
    LET ps == GetAllParameters(snippet)
    IN  [n \in {ps[i].name : i \in 1..Len(ps)} |->
            ResolveParameter(
                ps[CHOOSE i \in 1..Len(ps) : ps[i].name = n], values)]

RECURSIVE SubstituteFirstOnly(_, _, _)
\* faulty variant: only the first {name} token is replaced
SubstituteFirstOnly(s, i, val) ==
    IF i > Len(s) THEN <<>>
    ELSE LET j == PlaceholderEnd(s, i)
         IN  IF j = 0 THEN <<s[i]>> \o SubstituteFirstOnly(s, i + 1, val)
             ELSE val[SubSeq(s, i + 1, j - 1)] \o SubSeq(s, j + 1, Len(s))

RECURSIVE Substitute(_, _, _)
\* one scanning pass over s from i: a {name} token becomes val[name], any
\* other character is copied; substituted text is not scanned again
Substitute(s, i, val) ==
    IF i > Len(s) THEN <<>>
    ELSE LET j == PlaceholderEnd(s, i)
         IN  IF j = 0 THEN <<s[i]>> \o Substitute(s, i + 1, val)
             ELSE val[SubSeq(s, i + 1, j - 1)] \o Substitute(s, j + 1, val)

\* the outcome of apply_parameters once the parameters ps are known
ApplyOutcome(snippet, values, ps) ==
    LET missing == {i \in 1..Len(ps) : ResolveParameter(ps[i], values) = None}
    IN  IF missing # {}
        THEN [kind |-> "error", name |-> ps[Min(missing)].name]
        ELSE [kind |-> "ok",
              str |-> Substitute(snippet.command, 1,
                                 ResolvedValues(snippet, values))]

\* faulty variant: a name in values that is no parameter of the snippet is an error
ApplyParametersRejectsUnknown(snippet, values) ==
    LET ps == GetAllParameters(snippet)
        unknown == DOMAIN values \ {ps[i].name : i \in 1..Len(ps)}
    IN  IF unknown # {}
        THEN [kind |-> "error", name |-> CHOOSE n \in unknown : TRUE]
        ELSE ApplyOutcome(snippet, values, ps)

\* Snippet.apply_parameters(values): the substituted command, or the
\* missing-required-parameter error naming the first unresolved parameter
ApplyParameters(snippet, values) ==
    ApplyOutcome(snippet, values, GetAllParameters(snippet))

(***************************************************************************)
(* AliasManager (alias_manager.py).  Text is a sequence of characters; a   *)
(* literal piece of an f-string of the source is kept as one element.      *)
(***************************************************************************)

\* characters shlex.quote leaves bare: [a-zA-Z0-9_@%+=:,./-]
SafeChars == WordChars \cup {"x", "X", "A", "B", "@", ".", "/", "-", "_"}

RECURSIVE EscapeQuotes(_)
\* s.replace("'", "'\"'\"'")
EscapeQuotes(s) ==
    IF s = <<>> THEN <<>>
    ELSE (IF Head(s) = "'" THEN <<"'", "\"", "'", "\"", "'">> ELSE <<Head(s)>>)
             \o EscapeQuotes(Tail(s))

\* faulty variant: the command is put between single quotes as it is
ShlexQuoteNaive(s) == <<"'">> \o s \o <<"'">>

\* shlex.quote(s)
ShlexQuote(s) ==
    IF s = <<>> THEN <<"'", "'">>
    ELSE IF \A i \in 1..Len(s) : s[i] \in SafeChars THEN s
    ELSE <<"'">> \o EscapeQuotes(s) \o <<"'">>

\* AliasManager._generate_alias_definition(alias_name, snippet_id, snippet)
GenerateAliasDefinition(alias_name, snippet_id, snippet) ==
    LET all_params == GetAllParameters(snippet)
    IN  IF all_params = <<>>
        THEN <<"alias ">> \o alias_name \o <<"=">> \o ShlexQuote(snippet.command)
        ELSE alias_name \o <<"() {", "\n", "    pypet exec ">> \o snippet_id
                 \o <<" \"$@\"", "\n", "}">>

RECURSIVE Join(_)
\* "\n".join(lines)
Join(lines) ==
    IF lines = <<>> THEN <<>>
    ELSE IF Len(lines) = 1 THEN lines[1]
    ELSE lines[1] \o <<"\n">> \o Join(Tail(lines))

\* the first five lines of the file, lines 51-57
HeaderLines ==
    << <<"# pypet aliases - Auto-generated file">>,
       <<"# Source this file in your shell profile (~/.bashrc, ~/.zshrc, etc.)">>,
       <<"# Add this line to your shell profile:">>,
       <<"#   source ", "aliases.sh">>,
       <<>> >>

\* a description or alias that "if snippet.alias" / "if snippet.description"
\* takes as present
Truthy(text) == text # None /\ text # <<>>

RECURSIVE AliasLines(_)
\* the lines the loop of lines 59-72 appends for the (id, snippet) pairs
AliasLines(pairs) ==
    IF pairs = <<>> THEN <<>>
    ELSE LET snippet_id == pairs[1].id
             snippet == pairs[1].snippet
         IN  (IF ~Truthy(snippet.alias) THEN <<>>
              ELSE (IF Truthy(snippet.description)
                    THEN << <<"# ">> \o snippet.description >> ELSE <<>>)
                   \o << GenerateAliasDefinition(snippet.alias, snippet_id, snippet),
                         <<>> >>)
             \o AliasLines(Tail(pairs))

\* faulty variant: open(alias_path, "a") and write
AppendFile(old, text) == IF old = None THEN text ELSE old \o text

\* alias_path.open("w") and f.write(text), lines 75-76
WriteFile(old, text) == text

(***************************************************************************)
(* Snippet (models.py): construction-time normalization and the record it  *)
(* is stored as.                                                           *)
(***************************************************************************)

\* tags=None and created_at=None / updated_at=None, typed like the field
NoTags == <<None>>
NoTime == -1

Whitespace == {" "}

RECURSIVE LStrip(_)
LStrip(s) ==
    IF s # <<>> /\ Head(s) \in Whitespace THEN LStrip(Tail(s)) ELSE s

RECURSIVE RStrip(_)
RStrip(s) ==
    IF s # <<>> /\ s[Len(s)] \in Whitespace
    THEN RStrip(SubSeq(s, 1, Len(s) - 1))
    ELSE s

\* str.strip()
Strip(s) == RStrip(LStrip(s))

\* [t.strip() for t in tags if t and t.strip()]
StripTags(tags) ==
    LET kept == SelectSeq(tags, LAMBDA t : t # <<>> /\ Strip(t) # <<>>)
    IN  [i \in 1..Len(kept) |-> Strip(kept[i])]

\* Snippet(...) followed by __post_init__, at wall-clock time now
PostInit(command, description, tags, created_at, updated_at, now) ==
    LET tags1 == IF tags = NoTags THEN <<>> ELSE tags
        created == IF created_at = NoTime THEN now ELSE created_at
    IN  [command |-> IF command # <<>> THEN Strip(command) ELSE <<>>,
         description |-> IF description # None /\ description # <<>>
                         THEN Strip(description) ELSE None,
         tags |-> IF tags1 # <<>> THEN Dedupe(StripTags(tags1)) ELSE tags1,
         created_at |-> created,
         updated_at |-> IF updated_at = NoTime THEN created ELSE updated_at]

\* datetime.isoformat() and datetime.fromisoformat(): text <-> datetime
IsoFormat(t) == [iso |-> t]
FromIsoFormat(text) == text.iso
NoIso == [iso |-> NoTime]

\* Snippet.to_dict()
ToDict(snippet) ==
    [command |-> snippet.command,
     description |-> snippet.description,
     tags |-> snippet.tags,
     created_at |-> IF snippet.created_at # NoTime
                    THEN IsoFormat(snippet.created_at) ELSE NoIso,
     updated_at |-> IF snippet.updated_at # NoTime
                    THEN IsoFormat(snippet.updated_at) ELSE NoIso]

\* data.get(key, default) on a loaded table
Get(data, key, default) == IF key \in DOMAIN data THEN data[key] ELSE default

\* Snippet.from_dict(data), at wall-clock time now
FromDict(data, now) ==
    PostInit(data["command"],
             Get(data, "description", None),
             Get(data, "tags", <<>>),
             IF Get(data, "created_at", NoIso) # NoIso
             THEN FromIsoFormat(data["created_at"]) ELSE NoTime,
             IF Get(data, "updated_at", NoIso) # NoIso
             THEN FromIsoFormat(data["updated_at"]) ELSE NoTime,
             now)

(***************************************************************************)
(* Storage (storage.py): the TOML file and the load / save cycle.          *)
(***************************************************************************)

\* a value toml.dump leaves out of a table: None
IsNoneValue(key, value) ==
    \/ key = "description" /\ value = None
    \/ key \in {"created_at", "updated_at"} /\ value = NoIso

\* the table toml.dump writes for one snippet dict: None values are skipped
TomlTable(d) ==
    [k \in {key \in DOMAIN d : ~IsNoneValue(key, d[key])} |-> d[k]]

\* The file is a well-formed TOML document holding data (a sequence of
\* [id, data] sections in file order), or text toml.load cannot parse.
TomlFile(snippets) == [kind |-> "toml", data |-> snippets]
EmptyFile == TomlFile(<<>>)
GarbageFile == [kind |-> "garbage", data |-> <<>>]

\* the document toml.dump(snippets, f) writes
TomlDump(snippets) ==
    TomlFile([i \in 1..Len(snippets) |->
                 [id |-> snippets[i].id, data |-> TomlTable(snippets[i].data)]])

\* Storage._load_snippets(): a file that does not parse loads as {}
LoadSnippets(f) == IF f.kind = "toml" THEN f.data ELSE <<>>

Ids(snippets) == {snippets[i].id : i \in 1..Len(snippets)}

Index(snippets, id) == CHOOSE i \in 1..Len(snippets) : snippets[i].id = id

Lookup(snippets, id) == snippets[Index(snippets, id)].data

\* faulty variant: a known key is taken out and appended again
SetItemMovesToEnd(snippets, id, data) ==
    Append(SelectSeq(snippets, LAMBDA e : e.id # id), [id |-> id, data |-> data])

\* snippets[id] = data on a dict: in place for a known key, else appended
SetItem(snippets, id, data) ==
    IF id \in Ids(snippets)
    THEN [snippets EXCEPT ![Index(snippets, id)] = [id |-> id, data |-> data]]
    ELSE Append(snippets, [id |-> id, data |-> data])

\* faulty variant: the record is left in the dict
DelItemKeepsAll(snippets, id) == snippets

\* del snippets[id]
DelItem(snippets, id) == SelectSeq(snippets, LAMBDA e : e.id # id)

\* now.strftime("%Y%m%d%H%M%S%f"): the ID of a snippet added at time now
StrfTime(now) == [stamp |-> now]

\* add_snippet, lines 52-60: the ID and the collection to save
AddSnippetDict(snippets, command, description, tags, now, now2) ==
    SetItem(snippets, StrfTime(now),
            ToDict(PostInit(command, description,
                            IF tags = NoTags \/ tags = <<>> THEN <<>> ELSE tags,
                            NoTime, NoTime, now2)))

\* data["command"] raises KeyError on a table without that key
HasCommand(data) == "command" \in DOMAIN data

\* get_snippet, lines 71-76, for a table that has its command
GetSnippetResult(snippets, id, now) ==
    LET data == Lookup(snippets, id)
    IN  PostInit(data["command"], Get(data, "description", None),
                 Get(data, "tags", <<>>), NoTime, NoTime, now)

\* list_snippets, line 81, for tables that have their command
ListSnippetsResult(snippets, now) ==
    [i \in 1..Len(snippets) |->
        [id |-> snippets[i].id, snippet |-> FromDict(snippets[i].data, now)]]

\* str.lower() over the letters the model uses
Lower(text) ==
    [i \in 1..Len(text) |->
        CASE text[i] = "A" -> "a"
          [] text[i] = "B" -> "b"
          [] text[i] = "X" -> "x"
          [] OTHER -> text[i]]

\* needle in hay, for strings
Contains(hay, needle) ==
    \E k \in 0..(Len(hay) - Len(needle)) :
        SubSeq(hay, k + 1, k + Len(needle)) = needle

\* search_snippets, lines 89-93: the test on one snippet, query lowered
Matches(snippet, query) ==
    \/ Contains(Lower(snippet.command), query)
    \/ /\ snippet.description # None
       /\ snippet.description # <<>>
       /\ Contains(Lower(snippet.description), query)
    \/ \E i \in 1..Len(snippet.tags) : Contains(Lower(snippet.tags[i]), query)

\* search_snippets, lines 85-96, over what list_snippets() returned
SearchSnippetsResult(listed, query) ==
    SelectSeq(listed, LAMBDA e : Matches(e.snippet, Lower(query)))

\* faulty variant: the update stamps created_at as well
UpdateSnippetDictRestamps(snippets, id, command, description, tags, now) ==
    LET old == FromDict(Lookup(snippets, id), now)
        new == [command |-> IF command # None THEN command ELSE old.command,
                description |-> IF description # None THEN description
                                ELSE old.description,
                tags |-> IF tags # NoTags THEN tags ELSE old.tags,
                created_at |-> now,
                updated_at |-> now]
    IN  SetItem(snippets, id, ToDict(new))

\* update_snippet, lines 110-119: the collection to save
UpdateSnippetDict(snippets, id, command, description, tags, now) ==
    LET old == FromDict(Lookup(snippets, id), now)
        new == [command |-> IF command # None THEN command ELSE old.command,
                description |-> IF description # None THEN description
                                ELSE old.description,
                tags |-> IF tags # NoTags THEN tags ELSE old.tags,
                created_at |-> old.created_at,
                updated_at |-> now]
    IN  SetItem(snippets, id, ToDict(new))

\* delete_snippet, line 129
DeleteSnippetDict(snippets, id) == DelItem(snippets, id)

(***************************************************************************)
(* Inputs of the Storage calls.                                            *)
(***************************************************************************)

MaxClock == 1
MaxWrites == 3

\* add_snippet(command, description, tags) as called
AddInputs ==
    {[command |-> <<"x">>, description |-> None, tags |-> <<>>],
     [command |-> <<" ">>, description |-> <<" ">>,
      tags |-> <<<<"a">>, <<"a">>, <<"b">>>>]}

\* update_snippet(id, ...) as called: None (NoTags) is the default of an
\* argument that is not supplied
UpdateInputs ==
    {[command |-> <<" ">>, description |-> None, tags |-> NoTags],
     [command |-> <<"x">>, description |-> None, tags |-> NoTags],
     [command |-> None, description |-> <<" ">>, tags |-> NoTags],
     [command |-> None, description |-> None,
      tags |-> <<<<"a">>, <<"a">>, <<"b">>>>]}

\* what a datetime.now() call can read when the last reading was t
Now(t) == {t2 \in {t, t + 1} : t2 <= MaxClock}

AllIds == {StrfTime(t) : t \in 0..MaxClock}

VARIABLES
    file,    \* the content of snippets.toml
    clock,   \* the last wall-clock reading
    writes,  \* how many times the file was saved since Storage.__init__
    last     \* the last Storage call: its arguments and what it returned

svars == <<file, clock, writes, last>>

MaxCalls == 1

\* the processes that share snippets.toml, each with its own Storage object
Procs == {1, 2}

VARIABLES
    pc,         \* per process: "idle" -> "loaded" -> "opened" -> "done"
    call,       \* per process: the running or finished call and its outcome
    snap,       \* per process: what _load_snippets() returned to the call
    pending,    \* per process: the collection the call hands to _save_snippets
    seen,       \* per process: the value of writes when the call loaded
    wrote,      \* per process: the value of writes after the call's dump
    overlap,    \* per process: another save ran while this one had the file open
    ncalls,     \* per process: mutating calls started so far
    committed   \* the document the last completed dump left in the file

cvars == <<pc, call, snap, pending, seen, wrote, overlap, ncalls, committed>>

ConcCall(op, id, ret) == [op |-> op, id |-> id, ret |-> ret]

\* no process is inside a Storage call
ConcIdle ==
    /\ pc = [p \in Procs |-> "idle"]
    /\ call = [p \in Procs |-> ConcCall("none", StrfTime(NoTime), "none")]
    /\ snap = [p \in Procs |-> <<>>]
    /\ pending = [p \in Procs |-> <<>>]
    /\ seen = [p \in Procs |-> 0]
    /\ wrote = [p \in Procs |-> 0]
    /\ overlap = [p \in Procs |-> FALSE]
    /\ ncalls = [p \in Procs |-> 0]
    /\ committed = file

\* get_snippet returned None
NoSnippet == [found |-> FALSE]

Call(op, id, args, ret) == [op |-> op, id |-> id, args |-> args, ret |-> ret]

\* a call that raised exc instead of returning
Raise(op, id, args, exc) == [op |-> op, id |-> id, args |-> args, raised |-> exc]

Returned(c) == "ret" \in DOMAIN c

NoArgs == [command |-> None, description |-> None, tags |-> NoTags]

NoCall == Call("none", StrfTime(NoTime), NoArgs, FALSE)

\* Storage.__init__ on a fresh path: _save_snippets({})
StoreInit ==
    /\ file = TomlDump(<<>>)
    /\ clock = 0
    /\ writes = 0
    /\ last = NoCall

\* Storage.add_snippet(command, description, tags)
AddSnippet ==
    \E args \in AddInputs, now \in Now(clock) :
      \E now2 \in Now(now) :
        LET snippets == LoadSnippets(file)
            snippet_id == StrfTime(now)
        IN  /\ writes < MaxWrites
            /\ file' = TomlDump(AddSnippetDict(snippets, args.command,
                                    args.description, args.tags, now, now2))
            /\ clock' = now2
            /\ writes' = writes + 1
            /\ last' = Call("add", snippet_id, args, snippet_id)

\* Storage.get_snippet(snippet_id)
GetSnippet ==
    \E snippet_id \in AllIds, now \in Now(clock) :
        LET snippets == LoadSnippets(file)
        IN  /\ IF snippet_id \notin Ids(snippets)
               THEN /\ last' = Call("get", snippet_id, NoArgs, NoSnippet)
                    /\ clock' = clock
               ELSE /\ last' = IF HasCommand(Lookup(snippets, snippet_id))
                                    THEN Call("get", snippet_id, NoArgs,
                                              GetSnippetResult(snippets, snippet_id, now))
                                    ELSE Raise("get", snippet_id, NoArgs, "KeyError")
                    /\ clock' = now
            /\ UNCHANGED <<file, writes>>

\* Storage.list_snippets()
ListSnippets ==
    LET snippets == LoadSnippets(file)
    IN  /\ last' = IF \A i \in 1..Len(snippets) : HasCommand(snippets[i].data)
                   THEN Call("list", StrfTime(NoTime), NoArgs,
                             ListSnippetsResult(snippets, clock))
                   ELSE Raise("list", StrfTime(NoTime), NoArgs, "KeyError")
        /\ UNCHANGED <<file, clock, writes>>

\* search_snippets(query) as called
Queries == {<<>>, <<"X">>, <<"a">>}

QueryArgs(query) == [command |-> query, description |-> None, tags |-> NoTags]

\* Storage.search_snippets(query)
SearchSnippets ==
    \E query \in Queries :
        LET snippets == LoadSnippets(file)
        IN  /\ last' = IF \A i \in 1..Len(snippets) : HasCommand(snippets[i].data)
                       THEN Call("search", StrfTime(NoTime), QueryArgs(query),
                                 SearchSnippetsResult(
                                     ListSnippetsResult(snippets, clock), query))
                       ELSE Raise("search", StrfTime(NoTime), QueryArgs(query),
                                  "KeyError")
            /\ UNCHANGED <<file, clock, writes>>

\* Storage.update_snippet(snippet_id, command, description, tags)
UpdateSnippet ==
    \E snippet_id \in AllIds, args \in UpdateInputs, now \in Now(clock) :
        LET snippets == LoadSnippets(file)
        IN  IF snippet_id \notin Ids(snippets)
            THEN /\ last' = Call("update", snippet_id, args, FALSE)
                 /\ UNCHANGED <<file, clock, writes>>
            ELSE IF ~HasCommand(Lookup(snippets, snippet_id))
            THEN /\ last' = Raise("update", snippet_id, args, "KeyError")
                 /\ UNCHANGED <<file, clock, writes>>
            ELSE /\ writes < MaxWrites
                 /\ file' = TomlDump(UpdateSnippetDict(snippets, snippet_id,
                                args.command, args.description, args.tags, now))
                 /\ clock' = now
                 /\ writes' = writes + 1
                 /\ last' = Call("update", snippet_id, args, TRUE)

\* faulty variant: delete_snippet without the "not in snippets" test
DeleteSnippetUnguarded ==
    \E snippet_id \in AllIds :
        LET snippets == LoadSnippets(file)
        IN  /\ writes < MaxWrites
            /\ file' = TomlDump(DeleteSnippetDict(snippets, snippet_id))
            /\ writes' = writes + 1
            /\ last' = Call("delete", snippet_id, NoArgs, TRUE)
            /\ UNCHANGED clock

\* Storage.delete_snippet(snippet_id)
DeleteSnippet ==
    \E snippet_id \in AllIds :
        LET snippets == LoadSnippets(file)
        IN  /\ IF snippet_id \notin Ids(snippets)
               THEN /\ last' = Call("delete", snippet_id, NoArgs, FALSE)
                    /\ UNCHANGED <<file, writes>>
               ELSE /\ writes < MaxWrites
                    /\ file' = TomlDump(DeleteSnippetDict(snippets, snippet_id))
                    /\ writes' = writes + 1
                    /\ last' = Call("delete", snippet_id, NoArgs, TRUE)
            /\ UNCHANGED clock

(***************************************************************************)
(* Inputs of the templating engine.                                        *)
(***************************************************************************)

MaxSegments == 3
MaxDeclared == 2

PlaceholderSegments == {<<"{", "a", "}">>, <<"{", "b", "}">>}
\* text a command is typed from: placeholders, stray braces, ordinary text
Segments == PlaceholderSegments \cup {<<"{">>, <<"}">>, <<"@">>}

SegmentLists == UNION {[1..n -> Segments] : n \in 0..MaxSegments}

\* declared names: a occurs in commands, c never does; b is never declared
ParamNames == {<<"a">>, <<"c">>}
Defaults == {None, <<"v">>}

DeclaredLists ==
    {ps \in UNION {[1..n -> {Parameter(n2, d) : n2 \in ParamNames, d \in Defaults}]
                     : n \in 0..MaxDeclared} :
        \A i, j \in 1..Len(ps) : ps[i].name = ps[j].name => i = j}

\* values given by the caller: a, b or the foreign name d, each absent or set
ValueMaps ==
    {[n \in dom |-> f[n]] :
        dom \in SUBSET {<<"a">>, <<"b">>, <<"d">>},
        f \in {g \in [{<<"a">>, <<"b">>, <<"d">>} -> {<<>>, <<"w">>, <<"{", "b", "}">>}] :
                 /\ g[<<"b">>] # <<"{", "b", "}">>
                 /\ g[<<"d">>] = <<"w">>}}

VARIABLES
    tSegments,   \* the segments the command was typed from
    tSnippet,    \* [command, parameters]: the template part of a Snippet
    tValues,     \* the values mapping handed to apply_parameters
    tPc,         \* "new" -> "listed" -> "applied"
    tAll,        \* what get_all_parameters() returned
    tResult      \* what apply_parameters(values) returned or raised

VARIABLES
    aliasFile,   \* the content of aliases.sh, None while it does not exist
    aliasCall    \* the last AliasManager call: its arguments and its result;
                 \* replaced: the call wrote over a file with other content

avars == <<aliasFile, aliasCall>>

NoAliasCall == [op |-> "none"]

\* no alias file was generated
AliasIdle ==
    /\ aliasFile = None
    /\ aliasCall = NoAliasCall

VARIABLE
    run          \* the exec command under way: its options, its position and
                 \* what it handed to the shell

\* no exec command was started
NoRun == [pc |-> "none"]

evars == <<tSegments, tSnippet, tValues, tPc, tAll, tResult, run>>

tvars == <<tSegments, tSnippet, tValues, tPc, tAll, tResult, aliasFile, aliasCall,
           run>>

vars == <<tSegments, tSnippet, tValues, tPc, tAll, tResult,
          file, clock, writes, last,
          pc, call, snap, pending, seen, wrote, overlap, ncalls, committed,
          aliasFile, aliasCall, run>>

NoResult == [kind |-> "none"]

TemplateInit ==
    /\ tSegments \in SegmentLists
    /\ tSnippet \in {[command |-> Concat(tSegments), parameters |-> ps] :
                        ps \in DeclaredLists}
    /\ tValues \in ValueMaps
    /\ tPc = "new"
    /\ tAll = <<>>
    /\ tResult = NoResult
    /\ StoreInit
    /\ ConcIdle
    /\ AliasIdle
    /\ run = NoRun

\* all_parameters = selected_snippet.get_all_parameters()
GetAllParametersCall ==
    /\ tPc = "new"
    /\ tAll' = GetAllParameters(tSnippet)
    /\ tPc' = "listed"
    /\ UNCHANGED <<tSegments, tSnippet, tValues, tResult>>
    /\ UNCHANGED <<avars, run>>
    /\ UNCHANGED <<svars, cvars>>

\* final_command = selected_snippet.apply_parameters(param_values)
ApplyParametersCall ==
    /\ tPc = "listed"
    /\ tResult' = ApplyParameters(tSnippet, tValues)
    /\ tPc' = "applied"
    /\ UNCHANGED <<tSegments, tSnippet, tValues, tAll>>
    /\ UNCHANGED <<avars, run>>
    /\ UNCHANGED <<svars, cvars>>

TemplateNext == GetAllParametersCall \/ ApplyParametersCall

SpecTemplate == TemplateInit /\ [][TemplateNext]_vars

(***************************************************************************)
(* One process calling Storage: every call runs from load to save before   *)
(* the next one starts.                                                    *)
(***************************************************************************)

\* no snippet is being executed
TemplateIdle ==
    /\ tSegments = <<>>
    /\ tSnippet = [command |-> <<>>, parameters |-> <<>>]
    /\ tValues = <<>>
    /\ tPc = "new"
    /\ tAll = <<>>
    /\ tResult = NoResult
    /\ AliasIdle
    /\ run = NoRun

Init == StoreInit /\ TemplateIdle /\ ConcIdle

Next ==
    \/ AddSnippet /\ UNCHANGED <<tvars, cvars>>
    \/ GetSnippet /\ UNCHANGED <<tvars, cvars>>
    \/ ListSnippets /\ UNCHANGED <<tvars, cvars>>
    \/ SearchSnippets /\ UNCHANGED <<tvars, cvars>>
    \/ UpdateSnippet /\ UNCHANGED <<tvars, cvars>>
    \/ DeleteSnippet /\ UNCHANGED <<tvars, cvars>>

Spec == Init /\ [][Next]_vars

(***************************************************************************)
(* A Snippet on its way to a record and back: constructed, serialized,     *)
(* written and loaded by toml, reconstructed.                              *)
(***************************************************************************)

\* Snippet(command, description, tags, created_at, updated_at) as called
CommandInputs == {<<"x">>, <<" ", "x", " ">>}
DescriptionInputs == {None, <<" ">>, <<"A", "b", " ">>}
TagInputs == {NoTags, <<>>, <<<<" ", "a">>, <<"a">>, <<" ">>, <<"B">>>>}
TimeInputs == {NoTime} \cup 0..MaxClock

SnippetInit ==
    /\ StoreInit
    /\ TemplateIdle
    /\ ConcIdle

\* Snippet(...): dataclass __init__ and __post_init__
NewSnippet ==
    \E command \in CommandInputs, description \in DescriptionInputs,
       tags \in TagInputs, created_at \in TimeInputs, now \in Now(clock) :
        /\ last' = Call("Snippet", StrfTime(NoTime),
                        [command |-> command, description |-> description,
                         tags |-> tags, created_at |-> created_at],
                        PostInit(command, description, tags, created_at,
                                 NoTime, now))
        /\ clock' = now
        /\ UNCHANGED <<file, writes, tvars, cvars>>

\* snippet.to_dict()
ToDictCall ==
    /\ last.op = "Snippet"
    /\ last' = Call("to_dict", last.id, [snippet |-> last.ret], ToDict(last.ret))
    /\ UNCHANGED <<file, clock, writes, tvars, cvars>>

\* toml.dump of the record followed by toml.load
DumpLoad ==
    /\ last.op = "to_dict"
    /\ last' = Call("toml", last.id, last.args, TomlTable(last.ret))
    /\ UNCHANGED <<file, clock, writes, tvars, cvars>>

\* Snippet.from_dict(data)
FromDictCall ==
    \E now \in Now(clock) :
        /\ last.op \in {"to_dict", "toml"}
        /\ last' = Call("from_dict", last.id, last.args, FromDict(last.ret, now))
        /\ clock' = now
        /\ UNCHANGED <<file, writes, tvars, cvars>>

SnippetNext == NewSnippet \/ ToDictCall \/ DumpLoad \/ FromDictCall

SpecSnippet == SnippetInit /\ [][SnippetNext]_vars

(***************************************************************************)
(* The exec command (cli/execution_commands.py): from the snippet ID to    *)
(* the shell.                                                              *)
(***************************************************************************)

\* exec without a snippet ID argument
NoId == StrfTime(NoTime)

\* the commands of the snippets exec finds in the store
ExecCommands == {<<"x">>, <<"x", " ", "{", "a", "}">>}

ExecFiles ==
    {TomlDump(<<>>)} \cup
    {TomlDump(AddSnippetDict(<<>>, c, None, <<>>, 0, 0)) : c \in ExecCommands}

\* the --param arguments: none, a=w, a= and one without "="
ParamArgs ==
    {<<>>, << <<"a", "=", "w">> >>, << <<"a", "=">> >>, << <<"a">> >>}

\* pypet exec [snippet_id] [--print-only] [--edit] [--copy] [--param ...]
ExecCall(snippet_id, print_only, edit, copy, param) ==
    [pc |-> "start", snippet_id |-> snippet_id, print_only |-> print_only,
     edit |-> edit, copy |-> copy, param |-> param, final |-> None,
     entered |-> "none", edited |-> "no", answer |-> "none", ran |-> <<>>]

ExecInit ==
    /\ file \in ExecFiles
    /\ clock = 0
    /\ writes = 0
    /\ last = NoCall
    /\ ConcIdle
    /\ AliasIdle
    /\ tSegments = <<>>
    /\ tSnippet = [command |-> <<>>, parameters |-> <<>>]
    /\ tValues = <<>>
    /\ tPc = "new"
    /\ tAll = <<>>
    /\ tResult = NoResult
    /\ run \in {ExecCall(id, po, e, c, param) :
                   id \in {NoId, StrfTime(0)}, po \in BOOLEAN, e \in BOOLEAN,
                   c \in BOOLEAN, param \in ParamArgs}

\* the Snippet a stored record is selected as: the store of src/ keeps no
\* declared parameters
Selected(snippets, id) ==
    [command |-> GetSnippetResult(snippets, id, clock).command,
     parameters |-> <<>>]

\* lines 192-236: no snippet ID given, the user picks from the list, quits
\* or interrupts
ExecSelect ==
    LET snippets == LoadSnippets(file)
    IN  /\ run.pc = "start"
        /\ run.snippet_id = NoId
        /\ IF snippets = <<>>
           THEN /\ run' = [run EXCEPT !.pc = "done"]
                /\ UNCHANGED tSnippet
           ELSE \/ \E choice \in {"q", "interrupt"} :
                      /\ run' = [run EXCEPT !.pc = "done"]
                      /\ UNCHANGED tSnippet
                \/ \E choice \in 1..Len(snippets) :
                      /\ run' = [run EXCEPT !.pc = "parse",
                                            !.snippet_id = snippets[choice].id]
                      /\ tSnippet' = Selected(snippets, snippets[choice].id)
        /\ UNCHANGED <<tSegments, tValues, tPc, tAll, tResult, avars, svars, cvars>>

\* lines 237-242: the snippet ID is looked up; an unknown ID is an error
ExecGet ==
    LET snippets == LoadSnippets(file)
    IN  /\ run.pc = "start"
        /\ run.snippet_id # NoId
        /\ IF run.snippet_id \notin Ids(snippets)
           THEN /\ run' = [run EXCEPT !.pc = "done"]
                /\ UNCHANGED tSnippet
           ELSE /\ run' = [run EXCEPT !.pc = "parse"]
                /\ tSnippet' = Selected(snippets, run.snippet_id)
        /\ UNCHANGED <<tSegments, tValues, tPc, tAll, tResult, avars, svars, cvars>>

\* p.split("=", 1) unpacks into name and value only if p holds a "="
WellFormed(p) == "=" \in Range(p)

\* name.strip() and value.strip() of a well-formed p
ParamName(p) ==
    Strip(SubSeq(p, 1, (CHOOSE i \in 1..Len(p) :
                           p[i] = "=" /\ \A j \in 1..(i - 1) : p[j] # "=") - 1))

ParamValue(p) ==
    Strip(SubSeq(p, (CHOOSE i \in 1..Len(p) :
                        p[i] = "=" /\ \A j \in 1..(i - 1) : p[j] # "=") + 1, Len(p)))

\* param_values after the loop of lines 246-249 over well-formed arguments
ParamValues(param) ==
    [n \in {ParamName(param[i]) : i \in 1..Len(param)} |->
        ParamValue(param[CHOOSE i \in 1..Len(param) :
                            /\ ParamName(param[i]) = n
                            /\ \A j \in (i + 1)..Len(param) :
                                   ParamName(param[j]) # n])]

\* lines 245-254: the --param arguments are parsed; one without "=" ends exec
ExecParse ==
    /\ run.pc = "parse"
    /\ IF \E i \in 1..Len(run.param) : ~WellFormed(run.param[i])
       THEN /\ run' = [run EXCEPT !.pc = "done"]
            /\ UNCHANGED tValues
       ELSE /\ run' = [run EXCEPT !.pc = "prompt"]
            /\ tValues' = ParamValues(run.param)
    /\ UNCHANGED <<tSegments, tSnippet, tPc, tAll, tResult, avars, svars, cvars>>

\* dict.update
DictUpdate(d, e) ==
    [n \in DOMAIN d \cup DOMAIN e |-> IF n \in DOMAIN e THEN e[n] ELSE d[n]]

\* lines 257-260: get_all_parameters(), and the prompt for values when not
\* all were given; the user enters w for every parameter, enters nothing,
\* or interrupts
ExecPrompt ==
    LET all_parameters == GetAllParameters(tSnippet)
        names == {all_parameters[i].name : i \in 1..Len(all_parameters)}
    IN  /\ run.pc = "prompt"
        /\ tAll' = all_parameters
        /\ IF all_parameters # <<>>
              /\ Cardinality(DOMAIN tValues) < Len(all_parameters)
           THEN \E entered \in {"w", "nothing", "interrupt"} :
                    CASE entered = "w" ->
                           /\ tValues' = DictUpdate(tValues, [n \in names |-> <<"w">>])
                           /\ run' = [run EXCEPT !.pc = "apply", !.entered = entered]
                      [] entered = "nothing" ->
                           /\ tValues' = tValues
                           /\ run' = [run EXCEPT !.pc = "apply", !.entered = entered]
                      [] entered = "interrupt" ->
                           /\ tValues' = tValues
                           /\ run' = [run EXCEPT !.pc = "done", !.entered = entered]
           ELSE /\ tValues' = tValues
                /\ run' = [run EXCEPT !.pc = "apply"]
        /\ UNCHANGED <<tSegments, tSnippet, tPc, tResult, avars, svars, cvars>>

\* lines 262-267: apply_parameters; its error ends exec
ExecApply ==
    LET result == ApplyParameters(tSnippet, tValues)
    IN  /\ run.pc = "apply"
        /\ tResult' = result
        /\ run' = IF result.kind = "error"
                  THEN [run EXCEPT !.pc = "done"]
                  ELSE [run EXCEPT !.pc = "edit", !.final = result.str]
        /\ UNCHANGED <<tSegments, tSnippet, tValues, tPc, tAll, avars, svars, cvars>>

\* lines 269-281: with --edit the command goes through the editor, which
\* returns the text as saved, returns None when closed without saving, or is
\* not available
ExecEdit ==
    /\ run.pc = "edit"
    /\ IF run.edit
       THEN \E outcome \in {"saved", "closed", "unavailable"} :
                CASE outcome = "saved" ->
                       run' = [run EXCEPT !.pc = "output", !.edited = "saved",
                                          !.final = run.final \o <<"!">>]
                  [] outcome = "closed" ->
                       run' = [run EXCEPT !.pc = "done", !.edited = "cancelled",
                                          !.final = None]
                  [] outcome = "unavailable" ->
                       run' = [run EXCEPT !.pc = "output", !.edited = "unavailable"]
       ELSE run' = [run EXCEPT !.pc = "output"]
    /\ UNCHANGED <<tSegments, tSnippet, tValues, tPc, tAll, tResult, avars,
                   svars, cvars>>

\* faulty variant: the command is run whatever the answer to the prompt is
ExecOutputUnconfirmed ==
    /\ run.pc = "output"
    /\ IF run.print_only \/ run.copy
       THEN run' = [run EXCEPT !.pc = "done"]
       ELSE \E answer \in {"yes", "no", "interrupt"} :
                run' = [run EXCEPT !.pc = "confirmed", !.answer = answer]
    /\ UNCHANGED <<tSegments, tSnippet, tValues, tPc, tAll, tResult, avars,
                   svars, cvars>>

\* lines 283-314: --print-only prints, --copy copies, otherwise the user is
\* asked "Execute this command?" and answers yes or no, or interrupts
ExecOutput ==
    /\ run.pc = "output"
    /\ IF run.print_only \/ run.copy
       THEN run' = [run EXCEPT !.pc = "done"]
       ELSE \E answer \in {"yes", "no", "interrupt"} :
                run' = [run EXCEPT !.pc = IF answer = "yes" THEN "confirmed"
                                          ELSE "done",
                                   !.answer = answer]
    /\ UNCHANGED <<tSegments, tSnippet, tValues, tPc, tAll, tResult, avars,
                   svars, cvars>>

\* lines 316-323: _execute_with_shell_support(final_command)
ExecRun ==
    /\ run.pc = "confirmed"
    /\ run' = [run EXCEPT !.pc = "done", !.ran = Append(@, run.final)]
    /\ UNCHANGED <<tSegments, tSnippet, tValues, tPc, tAll, tResult, avars,
                   svars, cvars>>

ExecNext ==
    \/ ExecSelect
    \/ ExecGet
    \/ ExecParse
    \/ ExecPrompt
    \/ ExecApply
    \/ ExecEdit
    \/ ExecOutput
    \/ ExecRun

SpecExec == ExecInit /\ [][ExecNext]_vars

(***************************************************************************)
(* The alias file: generated again and again from lists of snippets.       *)
(***************************************************************************)

MaxAliases == 2

\* the Snippets handed to AliasManager: command, description, alias and
\* declared parameters
AliasSnippet(command, description, alias, parameters) ==
    [command |-> command, description |-> description, alias |-> alias,
     parameters |-> parameters]

AliasSnippets ==
    {AliasSnippet(<<"x">>, None, <<"l", "l">>, <<>>),
     AliasSnippet(<<"x", " ", "'", "x", "'">>, <<"d">>, <<"g">>, <<>>),
     AliasSnippet(<<"x", " ", "{", "a", "}">>, <<"d">>, <<"l", "l">>, <<>>),
     AliasSnippet(<<"x">>, None, <<"g">>, <<Parameter(<<"c">>, <<"v">>)>>),
     AliasSnippet(<<"x">>, <<"d">>, None, <<>>),
     AliasSnippet(<<>>, <<>>, <<"l", "l">>, <<>>)}

\* the ID of the i-th snippet of a list
AliasId(i) == <<"i", "d">> \o [k \in 1..i |-> "1"]

\* snippets_with_aliases as handed to update_aliases_file
AliasArgs ==
    UNION {{[i \in 1..n |-> [id |-> AliasId(i), snippet |-> f[i]]] :
               f \in [1..n -> AliasSnippets]} : n \in 0..MaxAliases}

AliasInit ==
    /\ StoreInit
    /\ TemplateIdle
    /\ ConcIdle

\* manager._generate_alias_definition(alias_name, snippet_id, snippet)
GenerateAliasDefinitionCall ==
    \E snippet \in {e \in AliasSnippets : Truthy(e.alias)}, i \in 1..MaxAliases :
        /\ aliasCall' = [op |-> "definition", alias_name |-> snippet.alias,
                         snippet_id |-> AliasId(i), snippet |-> snippet,
                         ret |-> GenerateAliasDefinition(snippet.alias,
                                                         AliasId(i), snippet)]
        /\ UNCHANGED <<aliasFile, evars, svars, cvars>>

\* manager.update_aliases_file(snippets_with_aliases)
UpdateAliasesFile ==
    \E pairs \in AliasArgs :
        /\ aliasFile' = WriteFile(aliasFile,
                                  Join(HeaderLines \o AliasLines(pairs)))
        /\ aliasCall' = [op |-> "update", pairs |-> pairs,
                         replaced |-> aliasFile # None /\ aliasFile' # aliasFile]
        /\ UNCHANGED <<evars, svars, cvars>>

AliasNext == GenerateAliasDefinitionCall \/ UpdateAliasesFile

SpecAlias == AliasInit /\ [][AliasNext]_vars

(***************************************************************************)
(* One process reading a file it finds: a store written by earlier adds,   *)
(* or a file damaged by a save that did not complete.                      *)
(***************************************************************************)

\* add_snippet(command, description, tags) calls that wrote the stores read
ReadAddInputs ==
    AddInputs \cup {[command |-> <<"X">>, description |-> <<"A", "b">>,
                     tags |-> <<<<"B">>>>]}

\* add_snippet(..., alias=...) as tests/test_alias.py calls it: no alias, or ll
RecordAliases == {None, <<"l", "l">>}

\* the collection with the alias stored in its newest record
WithAlias(snippets, alias) ==
    LET n == Len(snippets)
        data == snippets[n].data
    IN  IF alias = None THEN snippets
        ELSE [snippets EXCEPT ![n].data =
                 [k \in DOMAIN data \cup {"alias"} |->
                     IF k = "alias" THEN alias ELSE data[k]]]

\* the collections n adds leave, one add per clock reading 0 .. n-1
RECURSIVE StoresOf(_)
StoresOf(n) ==
    IF n = 0 THEN {<<>>}
    ELSE {WithAlias(AddSnippetDict(c, a.command, a.description, a.tags,
                                   n - 1, n - 1), alias) :
              c \in StoresOf(n - 1), a \in ReadAddInputs, alias \in RecordAliases}

Stores == UNION {StoresOf(n) : n \in 0..(MaxClock + 1)}

\* the collections an update of the oldest snippet leaves
UpdatedStores ==
    {UpdateSnippetDict(LoadSnippets(TomlDump(c)), c[1].id, a.command,
                       a.description, a.tags, MaxClock) :
         c \in Stores \ {<<>>}, a \in UpdateInputs}

\* the document of snippets cut off right after the [id] line of its last
\* table: well-formed TOML whose last table has no key
CutFile(snippets) ==
    TomlFile([i \in 1..Len(snippets) |->
                 [id |-> snippets[i].id,
                  data |-> IF i = Len(snippets) THEN <<>>
                           ELSE TomlTable(snippets[i].data)]])

\* the file is not what a completed save leaves
Corrupt(f) ==
    \/ f.kind = "garbage"
    \/ \E i \in 1..Len(f.data) : ~HasCommand(f.data[i].data)

ReadFiles ==
    {GarbageFile} \cup {TomlDump(c) : c \in Stores \cup UpdatedStores}
                  \cup {CutFile(c) : c \in Stores \ {<<>>}}

ReadInit ==
    /\ file \in ReadFiles
    /\ clock = MaxClock
    /\ writes = 0
    /\ last = NoCall
    /\ TemplateIdle
    /\ ConcIdle

\* get_snippets_with_aliases() (spec section 4.2): the entries of list()
\* whose snippet has an alias, each with the alias its record holds
GetSnippetsWithAliasesResult(snippets, now) ==
    LET listed == ListSnippetsResult(snippets, now)
        entries == [i \in 1..Len(snippets) |->
                       [id |-> listed[i].id, snippet |-> listed[i].snippet,
                        alias |-> Get(snippets[i].data, "alias", None)]]
    IN  SelectSeq(entries, LAMBDA e : e.alias # None)

\* Storage.get_snippets_with_aliases()
GetSnippetsWithAliases ==
    LET snippets == LoadSnippets(file)
    IN  /\ last' = IF \A i \in 1..Len(snippets) : HasCommand(snippets[i].data)
                   THEN Call("aliases", StrfTime(NoTime), NoArgs,
                             GetSnippetsWithAliasesResult(snippets, clock))
                   ELSE Raise("aliases", StrfTime(NoTime), NoArgs, "KeyError")
        /\ UNCHANGED <<file, clock, writes>>

ReadNext ==
    \/ GetSnippet /\ UNCHANGED <<tvars, cvars>>
    \/ ListSnippets /\ UNCHANGED <<tvars, cvars>>
    \/ SearchSnippets /\ UNCHANGED <<tvars, cvars>>
    \/ GetSnippetsWithAliases /\ UNCHANGED <<tvars, cvars>>

SpecRead == ReadInit /\ [][ReadNext]_vars

(***************************************************************************)
(* One process changing a store whose file it finds damaged.               *)
(***************************************************************************)

DamagedFiles == {GarbageFile} \cup {CutFile(c) : c \in Stores \ {<<>>}}

DamagedInit ==
    /\ file \in DamagedFiles
    /\ clock = MaxClock
    /\ writes = 0
    /\ last = NoCall
    /\ TemplateIdle
    /\ ConcIdle

DamagedNext ==
    \/ AddSnippet /\ UNCHANGED <<tvars, cvars>>
    \/ UpdateSnippet /\ UNCHANGED <<tvars, cvars>>
    \/ DeleteSnippet /\ UNCHANGED <<tvars, cvars>>

SpecDamaged == DamagedInit /\ [][DamagedNext]_vars

(***************************************************************************)
(* Two processes calling Storage on the same file.  A mutating call is     *)
(* three steps: it loads the file and builds the collection to save, opens *)
(* the file for writing, which truncates it, and dumps the collection.     *)
(***************************************************************************)

\* add_snippet(command) as called by a racing process
ConcAddInputs == {[command |-> <<"x">>, description |-> None, tags |-> <<>>]}

\* update_snippet(id, command=...) as called by a racing process
ConcUpdateInputs == {[command |-> <<"y">>, description |-> None, tags |-> NoTags]}

\* the store the processes find: fresh, or holding one snippet added at time 0
ConcInit ==
    /\ file \in {TomlDump(<<>>),
                 TomlDump(AddSnippetDict(<<>>, <<"x">>, None, <<>>, 0, 0))}
    /\ clock = 0
    /\ writes = 0
    /\ last = NoCall
    /\ TemplateIdle
    /\ ConcIdle

\* open(config_path, "r+"): the file keeps its content when it is opened
OpenWithoutTruncate(f) == f

\* open(config_path, "w"): the content the file has once it is open
OpenForWrite(f) == EmptyFile

Starts(p) == pc[p] \in {"idle", "done"} /\ ncalls[p] < MaxCalls

Loaded(p, c, snippets, new) ==
    /\ pc' = [pc EXCEPT ![p] = "loaded"]
    /\ call' = [call EXCEPT ![p] = c]
    /\ snap' = [snap EXCEPT ![p] = snippets]
    /\ pending' = [pending EXCEPT ![p] = new]
    /\ seen' = [seen EXCEPT ![p] = writes]
    /\ wrote' = [wrote EXCEPT ![p] = 0]
    /\ overlap' = [overlap EXCEPT ![p] = FALSE]
    /\ ncalls' = [ncalls EXCEPT ![p] = @ + 1]

\* the call found no snippet_id in what it loaded and returned False
Missed(p, c, snippets) ==
    /\ pc' = [pc EXCEPT ![p] = "done"]
    /\ call' = [call EXCEPT ![p] = c]
    /\ snap' = [snap EXCEPT ![p] = snippets]
    /\ pending' = [pending EXCEPT ![p] = snippets]
    /\ seen' = [seen EXCEPT ![p] = writes]
    /\ wrote' = [wrote EXCEPT ![p] = 0]
    /\ overlap' = [overlap EXCEPT ![p] = FALSE]
    /\ ncalls' = [ncalls EXCEPT ![p] = @ + 1]

\* add_snippet, lines 52-60, in process p
AddLoad(p) ==
    \E args \in ConcAddInputs, now \in Now(clock) :
      \E now2 \in Now(now) :
        LET snippets == LoadSnippets(file)
        IN  /\ Starts(p)
            /\ Loaded(p, ConcCall("add", StrfTime(now), "none"), snippets,
                      AddSnippetDict(snippets, args.command, args.description,
                                     args.tags, now, now2))
            /\ clock' = now2
            /\ UNCHANGED <<file, writes, last, committed, tvars>>

\* update_snippet, lines 106-119, in process p
UpdateLoad(p) ==
    \E snippet_id \in AllIds, args \in ConcUpdateInputs, now \in Now(clock) :
        LET snippets == LoadSnippets(file)
        IN  /\ Starts(p)
            /\ IF snippet_id \notin Ids(snippets)
               THEN /\ Missed(p, ConcCall("update", snippet_id, "False"), snippets)
                    /\ clock' = clock
               ELSE /\ Loaded(p, ConcCall("update", snippet_id, "none"), snippets,
                              UpdateSnippetDict(snippets, snippet_id, args.command,
                                        args.description, args.tags, now))
                    /\ clock' = now
            /\ UNCHANGED <<file, writes, last, committed, tvars>>

\* delete_snippet, lines 125-129, in process p
DeleteLoad(p) ==
    \E snippet_id \in AllIds :
        LET snippets == LoadSnippets(file)
        IN  /\ Starts(p)
            /\ IF snippet_id \notin Ids(snippets)
               THEN Missed(p, ConcCall("delete", snippet_id, "False"), snippets)
               ELSE Loaded(p, ConcCall("delete", snippet_id, "none"), snippets,
                           DeleteSnippetDict(snippets, snippet_id))
            /\ UNCHANGED <<file, clock, writes, last, committed, tvars>>

\* _save_snippets, line 39, in process p: the file is opened and truncated
SaveOpen(p) ==
    /\ pc[p] = "loaded"
    /\ file' = OpenForWrite(file)
    /\ pc' = [pc EXCEPT ![p] = "opened"]
    /\ overlap' = [q \in Procs |->
                      overlap[q] \/ \E r \in Procs \ {p} : pc[r] = "opened"]
    /\ UNCHANGED <<clock, writes, last, call, snap, pending, seen, wrote,
                   ncalls, committed, tvars>>

\* _save_snippets, line 41, in process p: the document is written from the
\* start of the file and the call returns.  Over text another process wrote
\* since p opened the file, the result is p's document or, when that is the
\* shorter one, p's document followed by the rest of the other text.
SaveDump(p) ==
    /\ pc[p] = "opened"
    /\ file' \in IF file = EmptyFile
                 THEN {TomlDump(pending[p])}
                 ELSE {TomlDump(pending[p]), GarbageFile}
    /\ committed' = IF file' = TomlDump(pending[p]) THEN file' ELSE committed
    /\ writes' = writes + 1
    /\ wrote' = [wrote EXCEPT ![p] = writes + 1]
    /\ pc' = [pc EXCEPT ![p] = "done"]
    /\ call' = [call EXCEPT ![p].ret = IF call[p].op = "add" THEN "id" ELSE "True"]
    /\ UNCHANGED <<clock, last, snap, pending, seen, overlap, ncalls, tvars>>

\* _save_snippets, line 39, in process p: open() raises (the file cannot be
\* opened for writing); nothing is truncated and the error leaves the call
SaveOpenRaise(p) ==
    /\ pc[p] = "loaded"
    /\ pc' = [pc EXCEPT ![p] = "done"]
    /\ call' = [call EXCEPT ![p].ret = "raised"]
    /\ UNCHANGED <<file, clock, writes, last, snap, pending, seen, wrote,
                   overlap, ncalls, committed, tvars>>

\* faulty variant: the exception of toml.dump is caught and the call goes on
\* to return its ID or True
SaveRaiseSwallowed(p) ==
    /\ pc[p] = "opened"
    /\ file' \in {file, GarbageFile}
    /\ pc' = [pc EXCEPT ![p] = "done"]
    /\ call' = [call EXCEPT ![p].ret = IF call[p].op = "add" THEN "id" ELSE "True"]
    /\ UNCHANGED <<clock, writes, last, snap, pending, seen, wrote, overlap,
                   ncalls, committed, tvars>>

\* _save_snippets, lines 42-43, in process p: toml.dump raises, or the
\* process is interrupted, before the document is written in full
SaveRaise(p) ==
    /\ pc[p] = "opened"
    /\ file' \in {file, GarbageFile}
    /\ pc' = [pc EXCEPT ![p] = "done"]
    /\ call' = [call EXCEPT ![p].ret = "raised"]
    /\ UNCHANGED <<clock, writes, last, snap, pending, seen, wrote, overlap,
                   ncalls, committed, tvars>>

ConcNext ==
    \/ \E p \in Procs : AddLoad(p)
    \/ \E p \in Procs : UpdateLoad(p)
    \/ \E p \in Procs : DeleteLoad(p)
    \/ \E p \in Procs : SaveOpen(p)
    \/ \E p \in Procs : SaveOpenRaise(p)
    \/ \E p \in Procs : SaveDump(p)
    \/ \E p \in Procs : SaveRaise(p)

SpecConc == ConcInit /\ [][ConcNext]_vars

(***************************************************************************)
(* Claims about Storage with one caller, checked under Spec.               *)
(***************************************************************************)

\* the step is a call of op that saved the file
Saved(op) == last'.op = op /\ writes' = writes + 1

\* what list_snippets() shows for id in the collection of file f
Listed(f, id) == FromDict(Lookup(LoadSnippets(f), id), clock)

\* C5: get(id) right after add(fields) returned id gives the Snippet the add
\* built from its normalized input, in every field, timestamps included:
\* the record that was persisted and that list() returns.
C5_AddThenGet ==
    [][(last.op = "add" /\ last'.op = "get" /\ last'.id = last.ret) =>
          /\ last'.ret = PostInit(last.args.command, last.args.description,
                                  last.args.tags, NoTime, NoTime, clock)
          /\ last'.ret = Listed(file, last.ret)]_vars

\* C6: update(id, fields) on an existing id leaves the fields that were not
\* supplied as list() showed them before, keeps created_at and does not
\* move updated_at back.
C6_UpdateFrame ==
    [][Saved("update") =>
          LET before == Listed(file, last'.id)
              after == Listed(file', last'.id)
          IN  /\ last'.args.command = None => after.command = before.command
              /\ last'.args.description = None =>
                     after.description = before.description
              /\ last'.args.tags = NoTags => after.tags = before.tags
              /\ after.created_at = before.created_at
              /\ after.updated_at >= before.updated_at]_vars

\* tags as normalization leaves them: trimmed, none blank, none repeated
CleanTags(tags) ==
    /\ \A i \in 1..Len(tags) : tags[i] # <<>> /\ Strip(tags[i]) = tags[i]
    /\ \A i, j \in 1..Len(tags) : tags[i] = tags[j] => i = j

\* C7: after any adds and updates the tags of every persisted snippet are
\* trimmed and hold no blank and no duplicate; update(id, tags=[a, a, b])
\* persists [a, b].
C7_PersistedTags ==
    \A i \in 1..Len(LoadSnippets(file)) :
        CleanTags(Get(LoadSnippets(file)[i].data, "tags", <<>>))

\* C8: every add returns an ID that no snippet already in the store has,
\* also when the clock did not advance since the previous add.
C8_FreshId ==
    [][Saved("add") => last'.ret \notin Ids(LoadSnippets(file))]_vars

\* C11: no persisted snippet has a command that is empty after trimming:
\* no add and no update brings an empty command into the store.
C11_CommandNeverEmpty ==
    \A i \in 1..Len(LoadSnippets(file)) :
        Strip(LoadSnippets(file)[i].data["command"]) # <<>>

\* C12: get, update and delete on an ID that is not in the store return
\* None, False and False, and leave the file as it was.
C12_NotFound ==
    [][(last'.op \in {"get", "update", "delete"}
          /\ last'.id \notin Ids(LoadSnippets(file))) =>
          /\ file' = file
          /\ last'.op = "get" => last'.ret = NoSnippet
          /\ last'.op \in {"update", "delete"} => last'.ret = FALSE]_vars

\* an update or a delete of an unknown ID returned False on a store that
\* holds a snippet
C12_Witness ==
    /\ last.op \in {"update", "delete"}
    /\ last.id \notin Ids(LoadSnippets(file))
    /\ last.ret = FALSE
    /\ LoadSnippets(file) # <<>>

\* the IDs list_snippets() returned
ListedIds(ret) == {ret[i].id : i \in 1..Len(ret)}

\* C13: delete(id) of an existing id returns True and takes id out of the
\* file; an id that is not in the file is absent for get and for list, and
\* only an add that is assigned this id brings it back.
C13_DeleteThenAbsent ==
    [][/\ Saved("delete") =>
              /\ last'.ret = TRUE
              /\ last'.id \in Ids(LoadSnippets(file))
              /\ last'.id \notin Ids(LoadSnippets(file'))
       /\ (last'.op = "get" /\ last'.id \notin Ids(LoadSnippets(file))) =>
              last'.ret = NoSnippet
       /\ last'.op = "list" => ListedIds(last'.ret) = Ids(LoadSnippets(file))
       /\ \A id \in AllIds :
              (id \notin Ids(LoadSnippets(file)) /\ id \in Ids(LoadSnippets(file')))
                  => (last'.op = "add" /\ last'.id = id)]_vars

\* a delete returned True, its id is gone and another snippet is still there
C13_Witness ==
    /\ last.op = "delete"
    /\ last.id \notin Ids(LoadSnippets(file))
    /\ last.ret = TRUE
    /\ LoadSnippets(file) # <<>>

\* updated_at >= created_at in a Snippet
TimesOrdered(snippet) == snippet.updated_at >= snippet.created_at

\* updated_at >= created_at in every Snippet the file loads as at time now
FileTimesOrdered(f, now) ==
    \A i \in 1..Len(LoadSnippets(f)) :
        TimesOrdered(FromDict(LoadSnippets(f)[i].data, now))

C22_ExecConfirmed ==
    run.ran # <<>> =>
        /\ run.answer = "yes"
        /\ ~run.print_only /\ ~run.copy
        /\ run.snippet_id \in Ids(LoadSnippets(file))
        /\ \A i \in 1..Len(run.param) : WellFormed(run.param[i])
        /\ tResult.kind = "ok"
        /\ run.entered # "interrupt"
        /\ run.edited # "cancelled"
        /\ run.ran = <<run.final>>

\* a command with a placeholder was resolved from --param, edited, confirmed
\* and run
C22_Witness ==
    /\ run.pc = "done"
    /\ run.ran # <<>>
    /\ run.param # <<>>
    /\ run.edited = "saved"
    /\ run.answer = "yes"
    /\ Len(tAll) > 0

(***************************************************************************)
(* Claims about the alias file, checked under SpecAlias.                   *)
(***************************************************************************)

RECURSIVE ShellParse(_, _, _, _)
\* what a POSIX shell reads text[i..] as, inside quoting mode, given the
\* characters acc already read: one word, or not a single word
ShellParse(text, i, mode, acc) ==
    IF i > Len(text)
    THEN [word |-> mode = "bare", str |-> acc]
    ELSE LET c == text[i]
         IN  CASE mode = "bare" /\ c = "'" -> ShellParse(text, i + 1, "single", acc)
               [] mode = "bare" /\ c = "\"" -> ShellParse(text, i + 1, "double", acc)
               [] mode = "bare" /\ c \in SafeChars ->
                      ShellParse(text, i + 1, "bare", Append(acc, c))
               [] mode = "bare" /\ c \notin SafeChars \cup {"'", "\""} ->
                      [word |-> FALSE, str |-> acc]
               [] mode = "single" /\ c = "'" -> ShellParse(text, i + 1, "bare", acc)
               [] mode = "single" /\ c # "'" ->
                      ShellParse(text, i + 1, "single", Append(acc, c))
               [] mode = "double" /\ c = "\"" -> ShellParse(text, i + 1, "bare", acc)
               [] mode = "double" /\ c # "\"" ->
                      ShellParse(text, i + 1, "double", Append(acc, c))

\* text is "alias <name>=" followed by one shell word that reads as command
IsSimpleAlias(text, name, command) ==
    LET prefix == <<"alias ">> \o name \o <<"=">>
    IN  /\ Len(text) > Len(prefix)
        /\ SubSeq(text, 1, Len(prefix)) = prefix
        /\ ShellParse(SubSeq(text, Len(prefix) + 1, Len(text)), 1, "bare", <<>>)
               = [word |-> TRUE, str |-> command]

\* text is a shell function called name whose body hands "$@" to
\* pypet exec <id>
IsForwardingFunction(text, name, id) ==
    text = name \o <<"() {", "\n", "    pypet exec ">> \o id
               \o <<" \"$@\"", "\n", "}">>

RECURSIVE Occurs(_, _)
\* part occurs in text as a run of consecutive elements
Occurs(text, part) ==
    /\ Len(text) >= Len(part)
    /\ \/ SubSeq(text, 1, Len(part)) = part
       \/ Occurs(Tail(text), part)

\* C17: the definition of an alias-bearing snippet is the simple alias
\* "alias <name>=<shell-quoted command>" exactly when get_all_parameters()
\* is empty; otherwise it is a function <name> that forwards its arguments
\* to "pypet exec <id>" and holds no parameter value.
C17_AliasDefinition ==
    aliasCall.op = "definition" =>
        LET c == aliasCall
            ps == GetAllParameters(c.snippet)
        IN  IF ps = <<>>
            THEN /\ IsSimpleAlias(c.ret, c.alias_name, c.snippet.command)
                 /\ ~IsForwardingFunction(c.ret, c.alias_name, c.snippet_id)
            ELSE /\ IsForwardingFunction(c.ret, c.alias_name, c.snippet_id)
                 /\ ~IsSimpleAlias(c.ret, c.alias_name, c.snippet.command)
                 /\ \A i \in 1..Len(ps) :
                        ps[i].default # None => ~Occurs(c.ret, ps[i].default)

\* a simple alias was emitted for a command that needs quoting
C17_Witness ==
    /\ aliasCall.op = "definition"
    /\ GetAllParameters(aliasCall.snippet) = <<>>
    /\ "'" \in Range(aliasCall.snippet.command)
    /\ IsSimpleAlias(aliasCall.ret, aliasCall.alias_name, aliasCall.snippet.command)

RECURSIVE SplitLines(_)
\* the lines of text: the runs between its "\n" elements
SplitLines(text) ==
    IF "\n" \notin Range(text) THEN <<text>>
    ELSE LET k == CHOOSE i \in 1..Len(text) :
                      text[i] = "\n" /\ \A j \in 1..(i - 1) : text[j] # "\n"
         IN  <<SubSeq(text, 1, k - 1)>> \o SplitLines(SubSeq(text, k + 1, Len(text)))

\* the snippets of pairs that carry an alias, in the order of pairs
Aliased(pairs) == SelectSeq(pairs, LAMBDA e : Truthy(e.snippet.alias))

\* what one alias-bearing snippet adds to the file: its description as a
\* comment if it has one, its definition, a blank line
AliasBlock(e) ==
    (IF Truthy(e.snippet.description)
     THEN << <<"# ">> \o e.snippet.description >> ELSE <<>>)
        \o SplitLines(GenerateAliasDefinition(e.snippet.alias, e.id, e.snippet))
        \o << <<>> >>

\* C18: after update_aliases_file(pairs) the file is the header block, then
\* for each snippet of pairs that has an alias, in order, its description
\* comment if any, its definition and a blank line, and nothing else:
\* nothing of what the file held before, nothing for a snippet without alias.
C18_AliasFileRegenerated ==
    aliasCall.op = "update" =>
        LET blocks == [i \in 1..Len(Aliased(aliasCall.pairs)) |->
                          AliasBlock(Aliased(aliasCall.pairs)[i])]
        IN  SplitLines(aliasFile) = HeaderLines \o Concat(blocks)

\* the file was generated over an earlier, different content, from a list
\* with one snippet that has an alias and one that has none
C18_Witness ==
    /\ aliasCall.op = "update"
    /\ aliasCall.replaced
    /\ Len(aliasCall.pairs) = 2
    /\ Len(Aliased(aliasCall.pairs)) = 1

(***************************************************************************)
(* Claims about the Snippet model, checked under SpecSnippet.              *)
(***************************************************************************)

\* C16: from_dict(to_dict(s)) of a constructed Snippet s is equal to s in
\* every field, also when the record went through the TOML file and lost
\* its absent fields; so normalizing the serialized form of a normalized
\* snippet gives the normalized snippet.
C16_RoundTrip ==
    last.op = "from_dict" => last.ret = last.args.snippet

(***************************************************************************)
(* Claims about reading the file, checked under SpecRead.                  *)
(***************************************************************************)

\* C15: on a corrupt file every read returns what it returns on an empty
\* store (get None, list and search nothing) and none raises.
C15_CorruptReadsEmpty ==
    [][Corrupt(file) =>
          /\ Returned(last')
          /\ last'.op = "get" => last'.ret = NoSnippet
          /\ last'.op \in {"list", "search"} => last'.ret = <<>>]_vars

\* the IDs of a sequence of (id, snippet) entries, in order
IdsInOrder(entries) == [i \in 1..Len(entries) |-> entries[i].id]

\* query occurs in text when case is ignored
OccursIgnoringCase(text, query) ==
    \E i \in 1..(Len(text) + 1), j \in 0..Len(text) :
        Lower(SubSeq(text, i, j)) = Lower(query)

\* the snippet matches query: in its command, its description or a tag
MatchesQuery(snippet, query) ==
    \/ OccursIgnoringCase(snippet.command, query)
    \/ snippet.description # None /\ snippet.description # <<>>
           /\ OccursIgnoringCase(snippet.description, query)
    \/ \E t \in Range(snippet.tags) : OccursIgnoringCase(t, query)

RecordOf(f, id) ==
    LET snippets == LoadSnippets(f)
    IN  IF id \in Ids(snippets) THEN <<Lookup(snippets, id)>> ELSE <<>>

\* the IDs of the file f in file order, without those of the set skip
OrderOf(f, skip) ==
    LET kept == SelectSeq(LoadSnippets(f), LAMBDA e : e.id \notin skip)
    IN  [i \in 1..Len(kept) |-> kept[i].id]

\* C21: an add leaves every record that was in the store as it was and
\* where it was; an update or a delete of id does so for every record with
\* another ID; get, list and search leave the file as it was.
C21_Frame ==
    [][/\ Saved("add") =>
              /\ \A id \in Ids(LoadSnippets(file)) :
                     RecordOf(file', id) = RecordOf(file, id)
              /\ OrderOf(file', Ids(LoadSnippets(file')) \ Ids(LoadSnippets(file)))
                     = OrderOf(file, {})
       /\ (Saved("update") \/ Saved("delete")) =>
              /\ \A id \in AllIds \ {last'.id} :
                     RecordOf(file', id) = RecordOf(file, id)
              /\ OrderOf(file', {last'.id}) = OrderOf(file, {last'.id})
       /\ last'.op \in {"get", "list", "search"} => file' = file]_vars

(***************************************************************************)
(* Claims about changing a damaged store, checked under SpecDamaged.       *)
(***************************************************************************)

\* C23: a mutating operation that loads a corrupt file proceeds from an
\* empty collection: add returns and the file then holds exactly the added
\* snippet, update and delete return False and leave the file as it was.
C23_CorruptMutate ==
    [][Corrupt(file) =>
          /\ Returned(last')
          /\ last'.op = "add" =>
                 OrderOf(file', {}) = <<last'.ret>>
          /\ last'.op \in {"update", "delete"} =>
                 last'.ret = FALSE /\ file' = file]_vars

(***************************************************************************)
(* Claims about Storage with two callers, checked under SpecConc.          *)
(***************************************************************************)

\* the record stored under id, if any
EntryOf(snippets, id) ==
    IF id \in Ids(snippets) THEN <<Lookup(snippets, id)>> ELSE <<>>

\* p and q both ran a mutating call to its end, p's save fell between q's
\* load and q's save, q's save is the last one, and the two saves did not
\* have the file open at the same time
Raced(p, q) ==
    /\ p # q
    /\ pc[p] = "done" /\ pc[q] = "done"
    /\ wrote[p] > 0 /\ wrote[q] > 0
    /\ seen[q] < wrote[p] /\ wrote[p] < wrote[q]
    /\ ~overlap[p] /\ ~overlap[q]

\* C9: when the load and save steps of two mutating calls interleave, both
\* calls report success, the file holds the collection the later save wrote,
\* and every record but the one the later call worked on is as the later
\* call loaded it: the change of the earlier save is gone.
C9_LastWriterWins ==
    \A p, q \in Procs :
        Raced(p, q) =>
            /\ call[p].ret \in {"id", "True"}
            /\ call[q].ret \in {"id", "True"}
            /\ file = TomlDump(pending[q])
            /\ \A id \in AllIds \ {call[q].id} :
                   EntryOf(LoadSnippets(file), id) = EntryOf(snap[q], id)

\* two adds raced and the snippet of the earlier save is not in the file
C9_Witness ==
    \E p, q \in Procs :
        /\ Raced(p, q)
        /\ call[p].op = "add" /\ call[p].ret = "id"
        /\ call[q].ret \in {"id", "True"}
        /\ call[p].id # call[q].id
        /\ call[p].id \notin Ids(LoadSnippets(file))

\* C10: at every point, also while a save is under way or after it failed,
\* the file holds a whole collection: the one the last completed save wrote
\* or the one a save that has opened the file is writing.
C10_NeverPartial ==
    \/ file = committed
    \/ \E p \in Procs :
          pc[p] \in {"opened", "done"} /\ file = TomlDump(pending[p])

\* C14: a failure while the file is written leaves add, update or delete as
\* an error: a call that returned an ID or True completed its dump, and a
\* call that got as far as saving and did not complete its dump raised.
C14_WriteFailureRaised ==
    \A p \in Procs :
        pc[p] = "done" =>
            /\ call[p].ret \in {"id", "True"} => wrote[p] > 0
            /\ (wrote[p] = 0 /\ (call[p].op = "add" \/ call[p].id \in Ids(snap[p])))
                   => call[p].ret = "raised"

\* a save failed after the file was truncated, and the call raised
C14_Witness ==
    \E p \in Procs :
        /\ pc[p] = "done"
        /\ call[p].ret = "raised"
        /\ file # committed

(***************************************************************************)
(* Claims about the templating engine, checked under SpecTemplate.         *)
(***************************************************************************)

\* the name inside a placeholder segment {name}
SegmentName(seg) == SubSeq(seg, 2, Len(seg) - 1)

\* the command as typed, each placeholder segment replaced by val[its name]
Expand(segs, val) ==
    Concat([i \in 1..Len(segs) |->
               IF segs[i] \in PlaceholderSegments
               THEN val[SegmentName(segs[i])]
               ELSE segs[i]])

TypedPlaceholders ==
    {SegmentName(tSegments[i]) :
        i \in {k \in 1..Len(tSegments) : tSegments[k] \in PlaceholderSegments}}

Supplied(n) == n \in DOMAIN tValues /\ tValues[n] # <<>>

\* the value the resolution rule gives parameter p, None when there is none
RuleValue(p) == IF Supplied(p.name) THEN tValues[p.name] ELSE p.default

RuleValues ==
    [n \in {tAll[i].name : i \in 1..Len(tAll)} |->
        RuleValue(tAll[CHOOSE i \in 1..Len(tAll) : tAll[i].name = n])]

Unresolved == {i \in 1..Len(tAll) : RuleValue(tAll[i]) = None}

\* C1: apply_parameters resolves every parameter of get_all_parameters() to
\* the supplied non-empty value, else to its default; when some parameter has
\* neither it raises the missing-parameter error naming such a parameter and
\* returns no string, otherwise it returns the command with these values.
C1_ApplyResolves ==
    tPc = "applied" =>
        IF Unresolved # {}
        THEN /\ tResult.kind = "error"
             /\ \E i \in Unresolved : tResult.name = tAll[i].name
             /\ "str" \notin DOMAIN tResult
        ELSE /\ tResult.kind = "ok"
             /\ tResult.str = Expand(tSegments, RuleValues)

\* "{a}@{b}" with a defaulting to "v" and values {b: "w"} gives "v@w"
C1_Witness ==
    /\ tPc = "applied"
    /\ tSnippet.command = <<"{", "a", "}", "@", "{", "b", "}">>
    /\ tSnippet.parameters = <<Parameter(<<"a">>, <<"v">>)>>
    /\ tValues = (<<"b">> :> <<"w">>)
    /\ tResult = [kind |-> "ok", str |-> <<"v", "@", "w">>]

FirstTyped(n) ==
    Min({k \in 1..Len(tSegments) :
            tSegments[k] \in PlaceholderSegments /\ SegmentName(tSegments[k]) = n})

\* C2: get_all_parameters() holds every {name} of the command and every
\* declared name, each once: the declared parameters first, in declared
\* order, then the undeclared placeholders in order of first occurrence.
C2_AllParameters ==
    tPc # "new" =>
        LET nd == Len(tSnippet.parameters) IN
        /\ {tAll[i].name : i \in 1..Len(tAll)}
               = TypedPlaceholders \cup DeclaredNames(tSnippet)
        /\ \A i, j \in 1..Len(tAll) : tAll[i].name = tAll[j].name => i = j
        /\ Len(tAll) >= nd
        /\ SubSeq(tAll, 1, nd) = tSnippet.parameters
        /\ \A i, j \in (nd + 1)..Len(tAll) :
               i < j => FirstTyped(tAll[i].name) < FirstTyped(tAll[j].name)

\* "{b}{a}{b}" declaring only c: c first, then b and a as first met
C2_Witness ==
    /\ tPc = "listed"
    /\ tSegments = <<<<"{", "b", "}">>, <<"{", "a", "}">>, <<"{", "b", "}">>>>
    /\ tSnippet.parameters = <<Parameter(<<"c">>, None)>>
    /\ tAll = <<Parameter(<<"c">>, None), Parameter(<<"b">>, None),
                Parameter(<<"a">>, None)>>

NoPlaceholderTyped == TypedPlaceholders = {}

ParameterNames == TypedPlaceholders \cup DeclaredNames(tSnippet)

\* C3 as claimed: with no placeholder in the command, apply_parameters
\* returns the command unchanged for any values mapping.
C3_Original ==
    (tPc = "applied" /\ NoPlaceholderTyped) =>
        tResult = [kind |-> "ok", str |-> tSnippet.command]

\* C3 as amended: with no placeholder in the command and no declared
\* parameter left without a value, apply_parameters returns the command
\* unchanged; and for every snippet the names in values that are not among
\* its parameters change nothing: the outcome is that of the values mapping
\* restricted to the snippet's parameters.
C3_NoPlaceholders ==
    tPc = "applied" =>
        /\ (NoPlaceholderTyped /\ Unresolved = {}) =>
               tResult = [kind |-> "ok", str |-> tSnippet.command]
        /\ tResult = ApplyParameters(tSnippet,
               [n \in DOMAIN tValues \cap ParameterNames |-> tValues[n]])

\* "@" declaring c with default "v", called with the foreign name d
C3_Witness ==
    /\ tPc = "applied"
    /\ tSnippet.command = <<"@">>
    /\ tSnippet.parameters = <<Parameter(<<"c">>, <<"v">>)>>
    /\ tValues = (<<"d">> :> <<"w">>)
    /\ tResult = [kind |-> "ok", str |-> <<"@">>]

CandidateValues == Defaults \cup {<<>>, <<"w">>, <<"{", "b", "}">>}

HasBrace(s) == \E i \in 1..Len(s) : s[i] \in {"{", "}"}

\* C4 as claimed: a returned string holds no placeholder.
C4_Original ==
    (tPc = "applied" /\ tResult.kind = "ok") =>
        PlaceholderNames(tResult.str, 1) = <<>>

\* C4 as amended: a returned string is the command with every occurrence of
\* each {name} replaced by one value per name and all other text verbatim;
\* it holds no placeholder when neither the command's other text nor any
\* substituted value holds a brace (substituted text is not scanned again).
C4_FullySubstituted ==
    (tPc = "applied" /\ tResult.kind = "ok") =>
        /\ \E val \in [TypedPlaceholders -> CandidateValues \ {None}] :
               tResult.str = Expand(tSegments, val)
        /\ ( /\ \A k \in 1..Len(tSegments) :
                    tSegments[k] \in PlaceholderSegments \/ ~HasBrace(tSegments[k])
             /\ \A n \in TypedPlaceholders : ~HasBrace(RuleValues[n]) )
           => PlaceholderNames(tResult.str, 1) = <<>>

\* "{a}@{a}" with values {a: "w"} gives "w@w"
C4_Witness ==
    /\ tPc = "applied"
    /\ tSegments = <<<<"{", "a", "}">>, <<"@">>, <<"{", "a", "}">>>>
    /\ tValues = (<<"a">> :> <<"w">>)
    /\ tResult = [kind |-> "ok", str |-> <<"w", "@", "w">>]

====
